---- MODULE Spec2Model ----
(***************************************************************************)
(* Model of the four command line programs of the repository               *)
(*   level2-balance-query, level3-gas-calculate, level4-transfer,          *)
(*   level5-interact                                                       *)
(* with the transfer workflow (level4-transfer, transfer_eth and main)     *)
(* modelled statement by statement.  The JSON-RPC node, the environment    *)
(* and the ethers library calls are the nondeterministic environment: each *)
(* fallible call either fails or returns a value of a small set.           *)
(*                                                                         *)
(* U256 is modelled at a reduced width (U256_MAX) and u64 at a reduced     *)
(* width (U64_MAX); the operators +, * of U256 and U256::as_u64 panic on   *)
(* overflow, as the uint crate defines them.                               *)
(***************************************************************************)
EXTENDS Integers, Sequences, FiniteSets, TLC

\* largest value of the (width-reduced) U256 type
U256_MAX == 536870911
\* largest value of the (width-reduced) u64 type
U64_MAX == 1048575

\* level4-transfer: const BASIC_TRANSFER_GAS_LIMIT: u64 = 300000
BASIC_TRANSFER_GAS_LIMIT == 300000
\* level3-gas-calculate: const BASIC_TRANSFER_GAS_LIMIT: u64 = 21000
GAS_CALC_BASIC_TRANSFER_GAS_LIMIT == 21000

VARIABLES
    prog,            \* which binary runs: "balance", "gas", "transfer", "contract"
    env,             \* PRIVATE_KEY, TO_ADDRESS, AMOUNT as the process sees them
    pc,              \* position of the (single) task
    inflight,        \* JSON-RPC requests sent and not yet answered
    trace,           \* steps of the transfer attempt completed so far, in order
    failed_step,     \* the step whose fallible operation returned Err ("none" if none)
    panic_msg,       \* message of the panic that unwound the task ("none" if none)
    result,          \* what the workflow function returned to main
    from_address,    \* wallet.address()
    to_address,      \* validated recipient
    balance, amount, gas_price, gas_limit, gas_fee, total_required, chain_id,
    client_chain_id, \* chain id the signer of the SignerMiddleware signs for
    tx,              \* <<>> or <<TransactionRequest>>
    signed_tx,       \* <<>> or <<signed transaction>>
    broadcasts,      \* signed transactions handed to eth_sendRawTransaction
    tx_hash,         \* <<>> or <<hash>> of the pending transaction
    receipt,         \* <<>> while the wait has not returned a value, then
                     \* <<"None">> or <<"Some", receipt>>
    printed,         \* receipt fields printed to stdout
    stderr,          \* diagnostics written to the error stream
    exit_status      \* <<>> while running, <<code>> once the process has exited

ctlVars  == <<pc, inflight, trace, failed_step, panic_msg, result>>
dataVars == <<from_address, to_address, balance, amount, gas_price, gas_limit,
              gas_fee, total_required, chain_id>>
txVars   == <<client_chain_id, tx, signed_tx, broadcasts, tx_hash, receipt, printed>>
procVars == <<stderr, exit_status>>
vars == <<prog, env, ctlVars, dataVars, txVars, procVars>>

----------------------------------------------------------------------------
(* Values of the environment *)

Programs == {"balance", "gas", "transfer", "contract"}

\* PRIVATE_KEY: not set, set to something LocalWallet cannot parse, or a key
PrivateKeys == {"unset", "malformed", "valid"}

\* an address string: Address::from_str accepts it iff it is well formed
AddressStrings == {[wellformed |-> TRUE, id |-> 1], [wellformed |-> FALSE, id |-> 0]}

\* an AMOUNT string: parse_ether returns Err or Ok(wei)
AmountStrings ==
    {[parses |-> FALSE, wei |-> 0]} \cup
    {[parses |-> TRUE, wei |-> w] :
        w \in {0, 5, 100,
               U256_MAX - (U256_MAX \div BASIC_TRANSFER_GAS_LIMIT) * BASIC_TRANSFER_GAS_LIMIT,
               U256_MAX - (U256_MAX \div BASIC_TRANSFER_GAS_LIMIT) * BASIC_TRANSFER_GAS_LIMIT + 1,
               U256_MAX}}

\* balances the node may report
Balances == {0, 10, 300005, 1000000, U256_MAX}

\* gas prices the node may report
GasPrices == {0, 1, U256_MAX \div BASIC_TRANSFER_GAS_LIMIT,
              U256_MAX \div BASIC_TRANSFER_GAS_LIMIT + 1,
              U256_MAX \div GAS_CALC_BASIC_TRANSFER_GAS_LIMIT + 1, U256_MAX}

\* chain ids the node may report (a U256)
ChainIds == {421614, U64_MAX, U64_MAX + 1}

TxHashes == {"0xaa", "0xbb"}

Receipts == {[block_number |-> 100, gas_used |-> 21000, status |-> 1],
             [block_number |-> 101, gas_used |-> 300000, status |-> 0]}

----------------------------------------------------------------------------
(* Results and library functions *)

NoResult == [tag |-> "none"]
Ok(v) == [tag |-> "Ok", value |-> v]
Err(kind, detail) == [tag |-> "Err", kind |-> kind, detail |-> detail]

\* uint crate: impl Mul for U256 panics when the product does not fit
MulOverflows(a, b) == b # 0 /\ a > U256_MAX \div b

\* uint crate: impl Add for U256 panics when the sum does not fit
AddOverflows(a, b) == a > U256_MAX - b

\* U256::as_u64 panics unless the value fits a u64
FitsU64(v) == v <= U64_MAX

\* let gas_fee = gas_price * gas_limit
GasFee(price, limit) == price * limit

TotalRequiredNoFee(a, f) == a

\* let total_required = amount + gas_fee
TotalRequired(a, f) == a + f

\* if balance < total_required { return Err(..) }
InsufficientFunds(b, total) == b < total

BuildTxSwapped(to, value, gas, price) ==
    [to |-> to, value |-> value, gas |-> price, gas_price |-> gas]

\* TransactionRequest::new().to(..).value(..).gas(..).gas_price(..)
BuildTx(to, value, gas, price) ==
    [to |-> to, value |-> value, gas |-> gas, gas_price |-> price]

\* the steps of one transfer attempt, in the order of the code
StepOrder == <<"CredentialLoaded", "RecipientValidated", "BalanceFetched",
               "AmountParsed", "GasPriceFetched", "FeeComputed", "FundsValidated",
               "ChainIdFetched", "TransactionBuilt", "Signed", "Broadcast",
               "AwaitingReceipt">>

----------------------------------------------------------------------------
Init ==
    /\ prog \in Programs
    /\ env \in [private_key : PrivateKeys, to_address : AddressStrings,
                amount : AmountStrings]
    /\ prog # "transfer" =>
          env = [private_key |-> "unset",
                 to_address |-> [wellformed |-> TRUE, id |-> 1],
                 amount |-> [parses |-> TRUE, wei |-> 0]]
    /\ pc = "main"
    /\ inflight = {}
    /\ trace = <<>>
    /\ failed_step = "none"
    /\ panic_msg = "none"
    /\ result = NoResult
    /\ from_address = 0 /\ to_address = 0
    /\ balance = 0 /\ amount = 0 /\ gas_price = 0 /\ gas_limit = 0
    /\ gas_fee = 0 /\ total_required = 0 /\ chain_id = 0
    /\ client_chain_id = 0
    /\ tx = <<>> /\ signed_tx = <<>> /\ broadcasts = <<>> /\ tx_hash = <<>>
    /\ receipt = <<>> /\ printed = <<>>
    /\ stderr = <<>>
    /\ exit_status = <<>>

\* `?` on an Err: the workflow function returns the error at once
Fail(step, kind, detail) ==
    /\ pc' = "returned"
    /\ result' = Err(kind, detail)
    /\ failed_step' = step
    /\ UNCHANGED <<trace, panic_msg>>

\* a panic unwinds the task: nothing is returned
Panic(msg) ==
    /\ pc' = "panicked"
    /\ panic_msg' = msg
    /\ UNCHANGED <<trace, result, failed_step>>

\* the step completed: record it and go on
Advance(step, next) ==
    /\ pc' = next
    /\ trace' = Append(trace, step)
    /\ UNCHANGED <<failed_step, panic_msg, result>>

----------------------------------------------------------------------------
(* level4-transfer: main, up to the call of transfer_eth *)

\* std::env::var("PRIVATE_KEY").unwrap_or_else(|_| { eprintln!(..); exit(1) })
TransferMainReadEnv ==
    /\ prog = "transfer" /\ pc = "main"
    /\ IF env.private_key = "unset"
          THEN /\ stderr' = Append(stderr, "PRIVATE_KEY not found")
               /\ exit_status' = <<1>>
               /\ pc' = "exited"
          ELSE /\ pc' = "create_provider"
               /\ UNCHANGED procVars
    /\ UNCHANGED <<prog, env, inflight, trace, failed_step, panic_msg, result,
                   dataVars, txVars>>

(* level4-transfer: transfer_eth *)

\* 1. Provider::<Http>::try_from(RPC_URL)?  -- RPC_URL is a constant, valid URL
CreateProvider ==
    /\ prog = "transfer" /\ pc = "create_provider"
    /\ pc' = "load_wallet"
    /\ UNCHANGED <<prog, env, inflight, trace, failed_step, panic_msg, result,
                   dataVars, txVars, procVars>>

\* 2. let wallet: LocalWallet = private_key.parse()?; wallet.address()
LoadWallet ==
    /\ prog = "transfer" /\ pc = "load_wallet"
    /\ IF env.private_key = "valid"
          THEN /\ Advance("CredentialLoaded", "validate_address")
               /\ from_address' = 7
          ELSE /\ Fail("CredentialLoaded", "WalletError", 0)
               /\ UNCHANGED from_address
    /\ UNCHANGED <<prog, env, inflight, to_address, balance, amount, gas_price,
                   gas_limit, gas_fee, total_required, chain_id, txVars, procVars>>

\* 3. let to_address = validate_address(to_address)?
ValidateRecipient ==
    /\ prog = "transfer" /\ pc = "validate_address"
    /\ IF env.to_address.wellformed
          THEN /\ Advance("RecipientValidated", "call_balance")
               /\ to_address' = env.to_address.id
          ELSE /\ Fail("RecipientValidated", "InvalidAddress", 0)
               /\ UNCHANGED to_address
    /\ UNCHANGED <<prog, env, inflight, from_address, balance, amount, gas_price,
                   gas_limit, gas_fee, total_required, chain_id, txVars, procVars>>

\* 4. get_balance(&provider, from_address).await : request sent
CallGetBalance ==
    /\ prog = "transfer" /\ pc = "call_balance"
    /\ inflight' = inflight \cup {"eth_getBalance"}
    /\ pc' = "await_balance"
    /\ UNCHANGED <<prog, env, trace, failed_step, panic_msg, result,
                   dataVars, txVars, procVars>>

\* 4. get_balance(..).await? : the node answered
RetGetBalance ==
    /\ prog = "transfer" /\ pc = "await_balance"
    /\ "eth_getBalance" \in inflight
    /\ inflight' = inflight \ {"eth_getBalance"}
    /\ \/ \E b \in Balances :
             /\ balance' = b
             /\ Advance("BalanceFetched", "parse_amount")
       \/ /\ Fail("BalanceFetched", "NetworkError", 0)
          /\ UNCHANGED balance
    /\ UNCHANGED <<prog, env, from_address, to_address, amount, gas_price,
                   gas_limit, gas_fee, total_required, chain_id, txVars, procVars>>

\* 5. let amount = parse_ether(amount_eth)?
ParseAmount ==
    /\ prog = "transfer" /\ pc = "parse_amount"
    /\ IF env.amount.parses
          THEN /\ Advance("AmountParsed", "call_gas_price")
               /\ amount' = env.amount.wei
          ELSE /\ Fail("AmountParsed", "ConversionError", 0)
               /\ UNCHANGED amount
    /\ UNCHANGED <<prog, env, inflight, from_address, to_address, balance, gas_price,
                   gas_limit, gas_fee, total_required, chain_id, txVars, procVars>>

CallGetGasPriceConcurrent ==
    /\ prog = "transfer" /\ pc \in {"call_gas_price", "await_balance"}
    /\ "eth_gasPrice" \notin inflight
    /\ inflight' = inflight \cup {"eth_gasPrice"}
    /\ pc' = IF pc = "call_gas_price" THEN "await_gas_price" ELSE pc
    /\ UNCHANGED <<prog, env, trace, failed_step, panic_msg, result,
                   dataVars, txVars, procVars>>

\* 6. get_gas_price(&provider).await : request sent
CallGetGasPrice ==
    /\ prog = "transfer" /\ pc = "call_gas_price"
    /\ inflight' = inflight \cup {"eth_gasPrice"}
    /\ pc' = "await_gas_price"
    /\ UNCHANGED <<prog, env, trace, failed_step, panic_msg, result,
                   dataVars, txVars, procVars>>

\* 6. get_gas_price(..).await? : the node answered
RetGetGasPrice ==
    /\ prog = "transfer" /\ pc = "await_gas_price"
    /\ "eth_gasPrice" \in inflight
    /\ inflight' = inflight \ {"eth_gasPrice"}
    /\ \/ \E p \in GasPrices :
             /\ gas_price' = p
             /\ Advance("GasPriceFetched", "compute_fee")
       \/ /\ Fail("GasPriceFetched", "NetworkError", 0)
          /\ UNCHANGED gas_price
    /\ UNCHANGED <<prog, env, from_address, to_address, balance, amount,
                   gas_limit, gas_fee, total_required, chain_id, txVars, procVars>>

\* 7. let gas_limit = U256::from(BASIC_TRANSFER_GAS_LIMIT);
\*    let gas_fee = gas_price * gas_limit;
ComputeFee ==
    /\ prog = "transfer" /\ pc = "compute_fee"
    /\ gas_limit' = BASIC_TRANSFER_GAS_LIMIT
    /\ IF MulOverflows(gas_price, BASIC_TRANSFER_GAS_LIMIT)
          THEN /\ Panic("arithmetic operation overflow")
               /\ UNCHANGED gas_fee
          ELSE /\ gas_fee' = GasFee(gas_price, BASIC_TRANSFER_GAS_LIMIT)
               /\ Advance("FeeComputed", "validate_funds")
    /\ UNCHANGED <<prog, env, inflight, from_address, to_address, balance, amount,
                   gas_price, total_required, chain_id, txVars, procVars>>

InsufficientFundsError ==
    [required |-> total_required', amount |-> amount, fee |-> gas_fee,
     balance |-> balance]

ValidateFundsNoReturn ==
    /\ prog = "transfer" /\ pc = "validate_funds"
    /\ IF AddOverflows(amount, gas_fee)
          THEN /\ Panic("arithmetic operation overflow")
               /\ UNCHANGED total_required
          ELSE /\ total_required' = TotalRequired(amount, gas_fee)
               /\ IF InsufficientFunds(balance, total_required')
                     THEN /\ failed_step' = "FundsValidated"
                          /\ pc' = "call_chain_id"
                          /\ trace' = Append(trace, "FundsValidated")
                          /\ UNCHANGED <<panic_msg, result>>
                     ELSE Advance("FundsValidated", "call_chain_id")
    /\ UNCHANGED <<prog, env, inflight, from_address, to_address, balance, amount,
                   gas_price, gas_limit, gas_fee, chain_id, txVars, procVars>>

\* 8. let total_required = amount + gas_fee;
\*    if balance < total_required { return Err(format!(..).into()) }
ValidateFunds ==
    /\ prog = "transfer" /\ pc = "validate_funds"
    /\ IF AddOverflows(amount, gas_fee)
          THEN /\ Panic("arithmetic operation overflow")
               /\ UNCHANGED total_required
          ELSE /\ total_required' = TotalRequired(amount, gas_fee)
               /\ IF InsufficientFunds(balance, total_required')
                     THEN Fail("FundsValidated", "InsufficientFunds",
                               InsufficientFundsError)
                     ELSE Advance("FundsValidated", "call_chain_id")
    /\ UNCHANGED <<prog, env, inflight, from_address, to_address, balance, amount,
                   gas_price, gas_limit, gas_fee, chain_id, txVars, procVars>>

\* 9. provider.get_chainid().await : request sent
CallGetChainId ==
    /\ prog = "transfer" /\ pc = "call_chain_id"
    /\ inflight' = inflight \cup {"eth_chainId"}
    /\ pc' = "await_chain_id"
    /\ UNCHANGED <<prog, env, trace, failed_step, panic_msg, result,
                   dataVars, txVars, procVars>>

\* 9. provider.get_chainid().await? : the node answered
RetGetChainId ==
    /\ prog = "transfer" /\ pc = "await_chain_id"
    /\ "eth_chainId" \in inflight
    /\ inflight' = inflight \ {"eth_chainId"}
    /\ \/ \E c \in ChainIds :
             /\ chain_id' = c
             /\ Advance("ChainIdFetched", "create_client")
       \/ /\ Fail("ChainIdFetched", "NetworkError", 0)
          /\ UNCHANGED chain_id
    /\ UNCHANGED <<prog, env, from_address, to_address, balance, amount, gas_price,
                   gas_limit, gas_fee, total_required, txVars, procVars>>

\* 9. SignerMiddleware::new(provider.clone(), wallet.with_chain_id(chain_id.as_u64()))
CreateClient ==
    /\ prog = "transfer" /\ pc = "create_client"
    /\ IF FitsU64(chain_id)
          THEN /\ client_chain_id' = chain_id
               /\ pc' = "build_tx"
               /\ UNCHANGED <<trace, failed_step, panic_msg, result>>
          ELSE /\ Panic("Integer overflow when casting to u64")
               /\ UNCHANGED client_chain_id
    /\ UNCHANGED <<prog, env, inflight, dataVars, tx, signed_tx, broadcasts,
                   tx_hash, receipt, printed, procVars>>

\* 10. let tx = TransactionRequest::new().to(to_address).value(amount)
\*                 .gas(gas_limit).gas_price(gas_price)
BuildTransaction ==
    /\ prog = "transfer" /\ pc = "build_tx"
    /\ tx' = <<BuildTx(to_address, amount, gas_limit, gas_price)>>
    /\ Advance("TransactionBuilt", "sign_tx")
    /\ UNCHANGED <<prog, env, inflight, dataVars, client_chain_id, signed_tx,
                   broadcasts, tx_hash, receipt, printed, procVars>>

\* 11. client.send_transaction(tx, None): the middleware fills the request
\*     (sender, nonce) and signs it with the wallet for the client's chain id
SignTransaction ==
    /\ prog = "transfer" /\ pc = "sign_tx"
    /\ \/ /\ signed_tx' = <<[tx |-> tx[1], from |-> from_address,
                             chain_id |-> client_chain_id]>>
          /\ Advance("Signed", "call_broadcast")
       \/ /\ Fail("Signed", "SignerMiddlewareError", 0)
          /\ UNCHANGED signed_tx
    /\ UNCHANGED <<prog, env, inflight, dataVars, client_chain_id, tx,
                   broadcasts, tx_hash, receipt, printed, procVars>>

\* 11. client.send_transaction(tx, None).await : eth_sendRawTransaction sent
CallBroadcast ==
    /\ prog = "transfer" /\ pc = "call_broadcast"
    /\ inflight' = inflight \cup {"eth_sendRawTransaction"}
    /\ broadcasts' = Append(broadcasts, signed_tx[1])
    /\ pc' = "await_broadcast"
    /\ UNCHANGED <<prog, env, trace, failed_step, panic_msg, result, dataVars,
                   client_chain_id, tx, signed_tx, tx_hash, receipt, printed,
                   procVars>>

\* 11. let pending_tx = client.send_transaction(tx, None).await?;
\*     let tx_hash = pending_tx.tx_hash();
RetBroadcast ==
    /\ prog = "transfer" /\ pc = "await_broadcast"
    /\ "eth_sendRawTransaction" \in inflight
    /\ inflight' = inflight \ {"eth_sendRawTransaction"}
    /\ \/ \E h \in TxHashes :
             /\ tx_hash' = <<h>>
             /\ Advance("Broadcast", "call_receipt")
       \/ /\ Fail("Broadcast", "NetworkError", 0)
          /\ UNCHANGED tx_hash
    /\ UNCHANGED <<prog, env, dataVars, client_chain_id, tx, signed_tx,
                   broadcasts, receipt, printed, procVars>>

\* 12. pending_tx.await : the receipt lookup is sent
CallAwaitReceipt ==
    /\ prog = "transfer" /\ pc = "call_receipt"
    /\ inflight' = inflight \cup {"eth_getTransactionReceipt"}
    /\ pc' = "await_receipt"
    /\ UNCHANGED <<prog, env, trace, failed_step, panic_msg, result,
                   dataVars, txVars, procVars>>

RetAwaitReceiptNoneIsError ==
    /\ prog = "transfer" /\ pc = "await_receipt"
    /\ "eth_getTransactionReceipt" \in inflight
    /\ inflight' = inflight \ {"eth_getTransactionReceipt"}
    /\ \/ \E r \in Receipts :
             /\ receipt' = <<"Some", r>>
             /\ printed' = <<r.block_number, r.gas_used, r.status>>
             /\ pc' = "returned"
             /\ trace' = Append(trace, "AwaitingReceipt")
             /\ result' = Ok(tx_hash[1])
             /\ UNCHANGED <<failed_step, panic_msg>>
       \/ /\ receipt' = <<"None">>
          /\ Fail("AwaitingReceipt", "NoReceipt", 0)
          /\ UNCHANGED printed
       \/ /\ Fail("AwaitingReceipt", "ProviderError", 0)
          /\ UNCHANGED <<receipt, printed>>
    /\ UNCHANGED <<prog, env, dataVars, client_chain_id, tx, signed_tx,
                   broadcasts, tx_hash, procVars>>

\* 12. let receipt = pending_tx.await?;
\*     match receipt { Some(receipt) => println!(block_number, gas_used, status),
\*                     None => println!(..) }
\*     Ok(tx_hash)
RetAwaitReceipt ==
    /\ prog = "transfer" /\ pc = "await_receipt"
    /\ "eth_getTransactionReceipt" \in inflight
    /\ inflight' = inflight \ {"eth_getTransactionReceipt"}
    /\ \/ \E r \in Receipts :
             /\ receipt' = <<"Some", r>>
             /\ printed' = <<r.block_number, r.gas_used, r.status>>
             /\ pc' = "returned"
             /\ trace' = Append(trace, "AwaitingReceipt")
             /\ result' = Ok(tx_hash[1])
             /\ UNCHANGED <<failed_step, panic_msg>>
       \/ /\ receipt' = <<"None">>
          /\ pc' = "returned"
          /\ trace' = Append(trace, "AwaitingReceipt")
          /\ result' = Ok(tx_hash[1])
          /\ UNCHANGED <<printed, failed_step, panic_msg>>
       \/ /\ Fail("AwaitingReceipt", "ProviderError", 0)
          /\ UNCHANGED <<receipt, printed>>
    /\ UNCHANGED <<prog, env, dataVars, client_chain_id, tx, signed_tx,
                   broadcasts, tx_hash, procVars>>

(* level4-transfer: main, after transfer_eth returned *)

\* match transfer_eth(..).await { Ok(tx_hash) => println!(..),
\*                                Err(e) => { eprintln!(..); exit(1) } }  Ok(())
TransferMainMatch ==
    /\ prog = "transfer" /\ pc = "returned"
    /\ IF result.tag = "Ok"
          THEN /\ exit_status' = <<0>>
               /\ UNCHANGED stderr
          ELSE /\ stderr' = Append(stderr, "transfer failed")
               /\ exit_status' = <<1>>
    /\ pc' = "exited"
    /\ UNCHANGED <<prog, env, inflight, trace, failed_step, panic_msg, result,
                   dataVars, txVars>>

\* a panic on the main task: the runtime prints the panic message to the error
\* stream and the process exits with status 101
PanicAbort ==
    /\ pc = "panicked"
    /\ stderr' = Append(stderr, panic_msg)
    /\ exit_status' = <<101>>
    /\ pc' = "exited"
    /\ UNCHANGED <<prog, env, inflight, trace, failed_step, panic_msg, result,
                   dataVars, txVars>>

----------------------------------------------------------------------------
(* level2-balance-query *)

\* get_balance(test_address): Provider::try_from(rpc_url)?, address.parse()?
\* on the constant, well-formed test_address, then provider.get_balance sent
BalanceQueryCall ==
    /\ prog = "balance" /\ pc = "main"
    /\ inflight' = inflight \cup {"eth_getBalance"}
    /\ pc' = "await_balance"
    /\ UNCHANGED <<prog, env, trace, failed_step, panic_msg, result,
                   dataVars, txVars, procVars>>

\* let balance = provider.get_balance(address, None).await?;
\* Ok(format_units(balance, "ether")?)
BalanceQueryRet ==
    /\ prog = "balance" /\ pc = "await_balance"
    /\ inflight' = inflight \ {"eth_getBalance"}
    /\ \/ \E b \in Balances :
             /\ balance' = b
             /\ result' = Ok(b)
             /\ pc' = "returned"
             /\ UNCHANGED <<trace, failed_step, panic_msg>>
       \/ /\ Fail("BalanceFetched", "NetworkError", 0)
          /\ UNCHANGED balance
    /\ UNCHANGED <<prog, env, from_address, to_address, amount, gas_price,
                   gas_limit, gas_fee, total_required, chain_id, txVars, procVars>>

\* match get_balance(..).await { Ok(balance) => println!(..),
\*                               Err(e) => { eprintln!(..); } }  Ok(())
BalanceQueryMainMatch ==
    /\ prog = "balance" /\ pc = "returned"
    /\ IF result.tag = "Ok"
          THEN UNCHANGED stderr
          ELSE stderr' = Append(stderr, "balance query failed")
    /\ exit_status' = <<0>>
    /\ pc' = "exited"
    /\ UNCHANGED <<prog, env, inflight, trace, failed_step, panic_msg, result,
                   dataVars, txVars>>

----------------------------------------------------------------------------
(* level3-gas-calculate *)

\* main: get_gas_price().await, and calculate_gas_fee: get_gas_price().await
GasCalcCall ==
    /\ prog = "gas" /\ pc \in {"main", "calculate_gas_fee"}
    /\ inflight' = inflight \cup {"eth_gasPrice"}
    /\ pc' = IF pc = "main" THEN "await_main_price" ELSE "await_fee_price"
    /\ UNCHANGED <<prog, env, trace, failed_step, panic_msg, result,
                   dataVars, txVars, procVars>>

\* main: let gas_price = get_gas_price().await?;
GasCalcMainRet ==
    /\ prog = "gas" /\ pc = "await_main_price"
    /\ inflight' = inflight \ {"eth_gasPrice"}
    /\ \/ \E p \in GasPrices :
             /\ gas_price' = p
             /\ pc' = "calculate_gas_fee"
             /\ UNCHANGED <<trace, failed_step, panic_msg, result>>
       \/ /\ Fail("GasPriceFetched", "NetworkError", 0)
          /\ UNCHANGED gas_price
    /\ UNCHANGED <<prog, env, from_address, to_address, balance, amount,
                   gas_limit, gas_fee, total_required, chain_id, txVars, procVars>>

\* calculate_gas_fee(None): let gas_price = get_gas_price().await?;
\*    let gas_limit = gas_limit.unwrap_or(BASIC_TRANSFER_GAS_LIMIT);
\*    let gas_fee = gas_price * U256::from(gas_limit);
GasCalcFeeRet ==
    /\ prog = "gas" /\ pc = "await_fee_price"
    /\ inflight' = inflight \ {"eth_gasPrice"}
    /\ \/ \E p \in GasPrices :
             /\ gas_price' = p
             /\ gas_limit' = GAS_CALC_BASIC_TRANSFER_GAS_LIMIT
             /\ IF MulOverflows(p, GAS_CALC_BASIC_TRANSFER_GAS_LIMIT)
                   THEN /\ Panic("arithmetic operation overflow")
                        /\ UNCHANGED gas_fee
                   ELSE /\ gas_fee' = GasFee(p, GAS_CALC_BASIC_TRANSFER_GAS_LIMIT)
                        /\ result' = Ok(gas_fee')
                        /\ pc' = "returned"
                        /\ UNCHANGED <<trace, failed_step, panic_msg>>
       \/ /\ Fail("GasPriceFetched", "NetworkError", 0)
          /\ UNCHANGED <<gas_price, gas_limit, gas_fee>>
    /\ UNCHANGED <<prog, env, from_address, to_address, balance, amount,
                   total_required, chain_id, txVars, procVars>>

\* main returns: Ok(()) exits with status 0; an Err propagated by `?` is printed
\* to the error stream by the runtime and the process exits with status 1
GasCalcMainReturn ==
    /\ prog = "gas" /\ pc = "returned"
    /\ IF result.tag = "Ok"
          THEN /\ exit_status' = <<0>>
               /\ UNCHANGED stderr
          ELSE /\ stderr' = Append(stderr, "Error")
               /\ exit_status' = <<1>>
    /\ pc' = "exited"
    /\ UNCHANGED <<prog, env, inflight, trace, failed_step, panic_msg, result,
                   dataVars, txVars>>

----------------------------------------------------------------------------
(* level5-interact *)

\* query_erc20_info: provider, Address::from_str and serde_json::from_str on
\* constants, then contract.method("name", ())?.call() resp. "symbol" sent
ContractQueryCall ==
    /\ prog = "contract" /\ pc \in {"main", "call_symbol"}
    /\ inflight' = inflight \cup {"eth_call"}
    /\ pc' = IF pc = "main" THEN "await_name" ELSE "await_symbol"
    /\ UNCHANGED <<prog, env, trace, failed_step, panic_msg, result,
                   dataVars, txVars, procVars>>

\* let name: String = contract.method("name", ())?.call().await?;
\* let symbol: String = contract.method("symbol", ())?.call().await?;  Ok(())
ContractQueryRet ==
    /\ prog = "contract" /\ pc \in {"await_name", "await_symbol"}
    /\ inflight' = inflight \ {"eth_call"}
    /\ \/ /\ pc = "await_name"
          /\ pc' = "call_symbol"
          /\ UNCHANGED <<trace, failed_step, panic_msg, result>>
       \/ /\ pc = "await_symbol"
          /\ pc' = "returned"
          /\ result' = Ok(0)
          /\ UNCHANGED <<trace, failed_step, panic_msg>>
       \/ \E kind \in {"NetworkError", "DecodingError"} :
             Fail(pc, kind, 0)
    /\ UNCHANGED <<prog, env, dataVars, txVars, procVars>>

\* match query_erc20_info(..).await { Ok(_) => println!(..),
\*                                    Err(e) => { eprintln!(..); exit(1) } }  Ok(())
ContractMainMatch ==
    /\ prog = "contract" /\ pc = "returned"
    /\ IF result.tag = "Ok"
          THEN /\ exit_status' = <<0>>
               /\ UNCHANGED stderr
          ELSE /\ stderr' = Append(stderr, "query failed")
               /\ exit_status' = <<1>>
    /\ pc' = "exited"
    /\ UNCHANGED <<prog, env, inflight, trace, failed_step, panic_msg, result,
                   dataVars, txVars>>

----------------------------------------------------------------------------
Next ==
    \/ TransferMainReadEnv
    \/ CreateProvider
    \/ LoadWallet
    \/ ValidateRecipient
    \/ CallGetBalance
    \/ RetGetBalance
    \/ ParseAmount
    \/ CallGetGasPrice
    \/ RetGetGasPrice
    \/ ComputeFee
    \/ ValidateFunds
    \/ CallGetChainId
    \/ RetGetChainId
    \/ CreateClient
    \/ BuildTransaction
    \/ SignTransaction
    \/ CallBroadcast
    \/ RetBroadcast
    \/ CallAwaitReceipt
    \/ RetAwaitReceipt
    \/ TransferMainMatch
    \/ PanicAbort
    \/ BalanceQueryCall
    \/ BalanceQueryRet
    \/ BalanceQueryMainMatch
    \/ GasCalcCall
    \/ GasCalcMainRet
    \/ GasCalcFeeRet
    \/ GasCalcMainReturn
    \/ ContractQueryCall
    \/ ContractQueryRet
    \/ ContractMainMatch

Spec == Init /\ [][Next]_vars

----------------------------------------------------------------------------
(* Properties *)

Range(seq) == {seq[i] : i \in 1..Len(seq)}

Done(step) == step \in Range(trace)

IsPrefix(s, t) == Len(s) <= Len(t) /\ s = SubSeq(t, 1, Len(s))

\* C1: a transaction is handed to the node for broadcast only if the balance
\* fetched in the attempt covers the parsed amount plus gas price x gas limit.
NeverBroadcastUnaffordable ==
    (prog = "transfer" /\ broadcasts # <<>>) =>
        balance >= amount + gas_price * gas_limit

\* a broadcast made with the balance exactly equal to amount + a nonzero fee
BroadcastAtExactBalance ==
    /\ prog = "transfer" /\ broadcasts # <<>>
    /\ gas_fee > 0 /\ amount > 0
    /\ balance = amount + gas_price * gas_limit

\* the steps before the transaction is built whose failure is an Err
FallibleStepsBeforeBuild ==
    {"CredentialLoaded", "RecipientValidated", "BalanceFetched", "AmountParsed",
     "GasPriceFetched", "FundsValidated", "ChainIdFetched"}

\* C2: when a step before the broadcast fails, the attempt is Failed at once:
\* the workflow has returned the error, no request is outstanding, the steps
\* completed are exactly those before the failed one, and nothing was built,
\* signed or broadcast.
FailFast ==
    (prog = "transfer" /\ failed_step \in FallibleStepsBeforeBuild \cup {"Signed"}) =>
        /\ result.tag = "Err"
        /\ pc \in {"returned", "exited"}
        /\ inflight = {}
        /\ IsPrefix(trace, StepOrder)
        /\ Len(trace) < Len(StepOrder)
        /\ StepOrder[Len(trace) + 1] = failed_step
        /\ broadcasts = <<>> /\ tx_hash = <<>> /\ signed_tx = <<>>
        /\ failed_step \in FallibleStepsBeforeBuild => tx = <<>>

\* the chain-id fetch failed and the process has exited with the failure status
ChainIdFailureExited ==
    /\ prog = "transfer" /\ failed_step = "ChainIdFetched"
    /\ pc = "exited" /\ exit_status = <<1>>
    /\ Done("FundsValidated")

\* C3: once the broadcast has succeeded, the workflow's result carries the
\* transaction hash however the confirmation wait ends.
HashSurfacedAfterBroadcast ==
    (prog = "transfer" /\ tx_hash # <<>> /\ pc \in {"returned", "exited"}) =>
        (result.tag = "Ok" /\ result.value = tx_hash[1])

\* C4: when the wait returns no receipt the workflow still returns Ok(hash) and
\* the process does not exit with a failure status (Unconfirmed); when it
\* returns a receipt, its block number, gas used and status are reported and the
\* workflow returns Ok(hash) (Confirmed).
WaitOutcomeIsSuccess ==
    (prog = "transfer" /\ receipt # <<>>) =>
        /\ pc \in {"returned", "exited"}
        /\ result.tag = "Ok" /\ result.value = tx_hash[1]
        /\ failed_step = "none"
        /\ exit_status \in {<<>>, <<0>>}
        /\ pc = "exited" => (exit_status = <<0>> /\ stderr = <<>>)
        /\ receipt[1] = "None" => printed = <<>>
        /\ receipt[1] = "Some" =>
              printed = <<receipt[2].block_number, receipt[2].gas_used,
                          receipt[2].status>>

\* the wait returned no receipt and the process exited with status 0
UnconfirmedExitedZero ==
    /\ prog = "transfer" /\ receipt = <<"None">>
    /\ pc = "exited" /\ exit_status = <<0>>

\* C5: the balance check passes iff balance >= amount + fee, and otherwise
\* fails with an insufficient-funds error whose data give the exact shortfall.
FundsCheckIffSufficient ==
    (prog = "transfer" /\ Done("FeeComputed") /\ pc # "validate_funds") =>
        IF balance >= amount + gas_fee
           THEN Done("FundsValidated") /\ failed_step # "FundsValidated"
           ELSE /\ failed_step = "FundsValidated"
                /\ result.tag = "Err" /\ result.kind = "InsufficientFunds"
                /\ result.detail.required - result.detail.balance
                      = (amount + gas_fee) - balance

\* the fetched gas price and parsed amount make the fee or the total overflow
OverflowCase ==
    /\ Done("GasPriceFetched")
    /\ \/ MulOverflows(gas_price, BASIC_TRANSFER_GAS_LIMIT)
       \/ AddOverflows(amount, GasFee(gas_price, BASIC_TRANSFER_GAS_LIMIT))

\* C6: when gas price x gas limit or amount + fee overflows, the attempt is
\* rejected with an error outcome; it never aborts abnormally.
OverflowRejected ==
    (prog = "transfer" /\ OverflowCase /\ pc \notin {"compute_fee", "validate_funds"}) =>
        /\ panic_msg = "none"
        /\ result.tag = "Err"
        /\ tx = <<>> /\ broadcasts = <<>>

\* the labels at which the task is suspended on a network call
AwaitLabels ==
    {"await_balance", "await_gas_price", "await_chain_id", "await_broadcast",
     "await_receipt"}

\* C7: the steps completed so far are always an initial segment of the fixed
\* order (so each step happens at most once, after all its predecessors), at
\* most one network call is in flight, and only while the task waits for it.
StrictlySequential ==
    prog = "transfer" =>
        /\ IsPrefix(trace, StepOrder)
        /\ Cardinality(inflight) <= 1
        /\ inflight # {} => pc \in AwaitLabels

\* an attempt that went through all twelve steps
AllStepsCompleted ==
    prog = "transfer" /\ trace = StepOrder /\ pc = "exited"

\* C8: the gas limit of the transfer is 21000, for the fee and in the
\* transaction.
GasLimitIs21000 ==
    prog = "transfer" =>
        /\ Done("FeeComputed") => (gas_limit = 21000 /\ gas_fee = gas_price * 21000)
        /\ tx # <<>> => tx[1].gas = 21000

\* C9: at exit of any entry point, a failed operation has written a diagnostic
\* and the status is nonzero; status zero means the operation succeeded.
ExitStatusReflectsFailure ==
    pc = "exited" =>
        /\ result.tag = "Err" => (stderr # <<>> /\ exit_status # <<0>>)
        /\ exit_status = <<0>> => result.tag = "Ok"

\* C10: the transaction built, signed and broadcast carries the validated
\* recipient, the parsed amount, the gas limit and the gas price of the fee
\* estimate, and is signed for the fetched chain id; its value + gas x gas price
\* is the total that was compared with the balance.
TxCarriesValidatedValues ==
    (prog = "transfer" /\ tx # <<>>) =>
        /\ tx[1].to = to_address /\ to_address = env.to_address.id
        /\ tx[1].value = amount /\ amount = env.amount.wei
        /\ tx[1].gas = gas_limit
        /\ tx[1].gas_price = gas_price
        /\ gas_fee = gas_price * gas_limit
        /\ tx[1].value + tx[1].gas * tx[1].gas_price = total_required
        /\ balance >= total_required
        /\ signed_tx # <<>> =>
              /\ signed_tx[1].tx = tx[1]
              /\ signed_tx[1].chain_id = chain_id
              /\ signed_tx[1].from = from_address
        /\ Len(broadcasts) <= 1
        /\ broadcasts # <<>> => broadcasts[1] = signed_tx[1]

\* a broadcast transaction with nonzero value and nonzero gas price
BroadcastNonTrivialTx ==
    /\ prog = "transfer" /\ broadcasts # <<>>
    /\ broadcasts[1].tx.value > 0 /\ broadcasts[1].tx.gas_price > 1
    /\ tx_hash # <<>>

====
